---- MODULE Spec2Model ----
(***************************************************************************)
(* Model of the tinacms dev session (DevCommand.execute, its watchers and  *)
(* the reconcile routine setup()) and of the code generator (Codegen).     *)
(*                                                                         *)
(* Asynchronous code is cut at its awaits: one action is the piece of a    *)
(* handler or of setup() that runs between two suspension points.          *)
(* Paths are sequences of path segments; String.includes(marker) is the    *)
(* contiguous-subsequence test on segments.                                *)
(***************************************************************************)
EXTENDS Integers, Sequences, FiniteSets, TLC

VARIABLES
  phase,          \* "starting" | "running" | "exited": the node process
  exitCode,       \* -1 while alive, else the code given to process.exit
  exitBy,         \* 0 while alive, else the setup run whose failure exited
  exitTrigger,    \* "none" while alive, else what ended the process first
  subProc,        \* "none", or "running" once the sub-command was started
  kills,          \* calls of subProc.kill()
  noWatch,        \* DevCommand.noWatch (--noWatch)
  legacy,         \* configManager.isUsingLegacyFolder
  runs,           \* the invocations of setup(), in invocation order
  artifacts,      \* the setup run whose Codegen last wrote the artifacts, 0 if none
  configEvents,   \* paths of the 'change' events given to server.watcher's handler
  contentWatching,\* watchContentFiles has registered its chokidar watcher
  contentReady,   \* `ready` of watchContentFiles
  contentEvents,  \* events the content watcher delivered
  contentCalls,   \* calls issued to database.indexContentByPaths/deleteContentByPaths
  queryWatchers,  \* the chokidar watchers registered by watchQueries
  queryEvents,    \* events the query watchers delivered
  queryExecs,     \* invocations of the watchQueries callback (codegen.execute)
  config,         \* configManager.config: branch, clientId, token, override URLs
  port,           \* Codegen.port; 0 stands for every falsy port (undefined, 0, NaN)
  noSDK,          \* Codegen.noSDK
  isUsingTs,      \* configManager.isUsingTs()
  docs,           \* the generation of schema, queryDoc and fragDoc the Codegen holds
  fragSize,       \* size in bytes of fragDoc as written to frags.gql
  disk,           \* the generated files: file -> content, NoFile when absent
  before,         \* the generated files as they were when the Codegen was built
  cpc,            \* Codegen.execute: "idle", "running", "returned" or "threw"
  cstep,          \* Codegen.execute: operations of the plan completed so far
  apiResult,      \* what the last call of getApiURL returned or threw
  warned,         \* maybeWarnFragmentSize printed its warning in this run
  nExec           \* Codegen objects built so far

devVars == <<phase, exitCode, exitBy, exitTrigger, subProc, kills, noWatch, legacy, runs, artifacts,
             configEvents, contentWatching, contentReady, contentEvents,
             contentCalls, queryWatchers, queryEvents, queryExecs>>

cgVars == <<config, port, noSDK, isUsingTs, docs, fragSize, disk, before, cpc, cstep,
            apiResult, warned, nExec>>

vars == <<devVars, cgVars>>

----------------------------------------------------------------------------
(* Bounds *)

\* filesystem events delivered to the watchers in one session, all watchers together
MaxEvents == 2

\* Codegen objects built, one after the other, in the runs of Codegen.execute
MaxExecutes == 2

Delivered == Len(configEvents) + Len(contentEvents) + Len(queryEvents)

----------------------------------------------------------------------------
(* Paths *)

Root == <<"site">>
ContentRoot == Root \o <<"content">>

ContentPaths ==
  { ContentRoot \o <<"posts", "a.md">>,
    ContentRoot \o <<"posts", "__generated__", "b.md">> }

QueryPaths ==
  { Root \o <<"tina", "queries", "q.gql">>,
    Root \o <<"tina", "queries", "__generated__", "q.gql">> }

ConfigPaths ==
  { Root \o <<"tina", "config.ts">>,
    Root \o <<"tina", "__generated__", "types.ts">>,
    Root \o <<"node_modules", "@tinacms", "app", "main.js">>,
    Root \o <<"node_modules", "tinacms", "dist", "index.js">> }

Kinds == {"add", "change", "unlink"}

\* String.prototype.includes on a path
Includes(p, marker) ==
  \E i \in 1..(Len(p) - Len(marker) + 1) :
     SubSeq(p, i, i + Len(marker) - 1) = marker

GeneratedMarkers == { <<"__generated__">>, <<"@tinacms", "app">>, <<"tinacms", "dist">> }

HasMarker(p) == \E m \in GeneratedMarkers : Includes(p, m)

\* configManager.printContentRelativePath: the path relative to the content root
PrintContentRelativePath(p) ==
  IF Len(p) >= Len(ContentRoot) /\ SubSeq(p, 1, Len(ContentRoot)) = ContentRoot
  THEN SubSeq(p, Len(ContentRoot) + 1, Len(p))
  ELSE p

----------------------------------------------------------------------------
(* setup(): the full reconcile *)

\* The steps of setup() that are awaited; the others run synchronously in
\* the continuation of the awaited step before them.
AwaitedSteps ==
  { "processConfig", "createAndInitializeDatabase", "buildSchema",
    "getASTSchema", "codegen.execute", "indexContent" }

\* setup() with the content index rebuilt before the Codegen is built and run
SetupOrderIndexFirst(isLegacy, isNoWatch) ==
  <<"processConfig", "createAndInitializeDatabase", "buildSchema">>
  \o (IF isLegacy THEN <<>> ELSE <<"tina-lock.json">>)
  \o <<"indexContent", "getASTSchema", "codegen.execute">>
  \o (IF isNoWatch THEN <<>> ELSE <<"watchQueries">>)

\* The steps of setup() in the order of the code, for the session's flags
SetupOrder(isLegacy, isNoWatch) ==
  <<"processConfig", "createAndInitializeDatabase", "buildSchema">>
  \o (IF isLegacy THEN <<>> ELSE <<"tina-lock.json">>)
  \o <<"getASTSchema", "codegen.execute">>
  \o (IF isNoWatch THEN <<>> ELSE <<"watchQueries">>)
  \o <<"indexContent">>

Order == SetupOrder(legacy, noWatch)

\* the synchronous steps that follow position i of the order
RECURSIVE SyncSteps(_, _)
SyncSteps(order, i) ==
  IF i > Len(order) \/ order[i] \in AwaitedSteps
  THEN <<>>
  ELSE <<order[i]>> \o SyncSteps(order, i + 1)

Active(r) == runs[r].status = "active"

\* the awaited step run r is suspended on
Pending(r) == Order[Len(runs[r].trace) + 1]

Member(s, x) == \E i \in 1..Len(s) : s[i] = x

NewRun(kind, trigger) ==
  [kind |-> kind, trigger |-> trigger, trace |-> <<>>, status |-> "active"]

\* process.exit(code)
\* exitHandler is registered on 'exit', SIGINT, SIGUSR1, SIGUSR2 and
\* uncaughtException once the server has started
ExitHandlerRegistered == phase = "running"

\* The calls of subProc.kill() made by n runs of exitHandler
Kills(n) == IF subProc = "running" THEN n ELSE 0

\* process.exit(code) called by setup(). The runtime emits 'exit' once, which
\* runs exitHandler; the process.exit() in it finds the process exiting
\* already and ends it with the code set before.
ProcessExit(code, r) ==
  /\ phase' = "exited"
  /\ exitCode' = code
  /\ exitBy' = r
  /\ exitTrigger' = "process.exit"
  /\ kills' = kills + (IF ExitHandlerRegistered THEN Kills(1) ELSE 0)
  /\ subProc' = subProc

\* exitHandler run by a trigger other than 'exit': it kills the sub-process
\* and calls process.exit(), whose 'exit' event runs exitHandler once more;
\* the process.exit() of that second run ends the process, with code 0.
ExitHandler(trigger) ==
  /\ phase = "running"
  /\ ExitHandlerRegistered
  /\ phase' = "exited"
  /\ exitCode' = 0
  /\ exitTrigger' = trigger
  /\ kills' = kills + Kills(2)
  /\ UNCHANGED <<exitBy, subProc>>

\* The awaited step of run r completes and setup() runs on to its next await
SetupStepOk(r) ==
  /\ phase # "exited"
  /\ r \in 1..Len(runs)
  /\ Active(r)
  /\ LET step == Pending(r)
         done == runs[r].trace \o <<step>>
         sync == SyncSteps(Order, Len(done) + 1)
         trace == done \o sync
     IN /\ runs' = [runs EXCEPT ![r].trace = trace,
                                ![r].status = IF Len(trace) = Len(Order)
                                              THEN "done" ELSE "active"]
        /\ artifacts' = IF step = "codegen.execute" THEN r ELSE artifacts
        /\ queryWatchers' = IF Member(sync, "watchQueries")
                            THEN Append(queryWatchers, [ready |-> FALSE, owner |-> r])
                            ELSE queryWatchers
  /\ UNCHANGED cgVars
  /\ UNCHANGED <<phase, exitCode, exitBy, exitTrigger, subProc, kills, noWatch, legacy, configEvents,
                 contentWatching, contentReady, contentEvents, contentCalls,
                 queryEvents, queryExecs>>

\* configManager.processConfig() rejects: setup() logs and calls process.exit(1)
SetupConfigFails(r) ==
  /\ phase # "exited"
  /\ r \in 1..Len(runs)
  /\ Active(r)
  /\ Pending(r) = "processConfig"
  /\ runs' = [runs EXCEPT ![r].status = "configFailed"]
  /\ ProcessExit(1, r)
  /\ UNCHANGED cgVars
  /\ UNCHANGED <<noWatch, legacy, artifacts, configEvents, contentWatching,
                 contentReady, contentEvents, contentCalls, queryWatchers,
                 queryEvents, queryExecs>>

\* Another awaited step of setup() rejects. The first run's rejection leaves
\* execute() and reaches Command.catch (process.exit(1)); a later run's is
\* caught and logged by the 'change' handler.
SetupThrows(r) ==
  /\ phase # "exited"
  /\ r \in 1..Len(runs)
  /\ Active(r)
  /\ Pending(r) \in {"buildSchema", "codegen.execute", "indexContent"}
  /\ runs' = [runs EXCEPT ![r].status = "failed"]
  /\ IF runs[r].kind = "initial"
     THEN ProcessExit(1, r)
     ELSE UNCHANGED <<phase, exitCode, exitBy, exitTrigger, subProc, kills>>
  /\ UNCHANGED cgVars
  /\ UNCHANGED <<noWatch, legacy, artifacts, configEvents, contentWatching,
                 contentReady, contentEvents, contentCalls, queryWatchers,
                 queryEvents, queryExecs>>

\* execute() after `await setup()`: the server is created and listens, then
\* the content watcher and the 'change' handler are registered
StartServer(subCommand) ==
  /\ phase = "starting"
  /\ runs[1].status = "done"
  /\ phase' = "running"
  /\ contentWatching' = ~noWatch
  /\ subProc' = IF subCommand THEN "running" ELSE "none"
  /\ UNCHANGED cgVars
  /\ UNCHANGED <<exitCode, exitBy, exitTrigger, kills, noWatch, legacy, runs, artifacts,
                 configEvents, contentReady, contentEvents, contentCalls,
                 queryWatchers, queryEvents, queryExecs>>

\* server.watcher.on('change'): whether the handler calls setup()
ChangeHandlerRunsSetup(changedPath) ==
  ~ ( \/ Includes(changedPath, <<"__generated__">>)
      \/ Includes(changedPath, <<"@tinacms", "app">>)
      \/ Includes(changedPath, <<"tinacms", "dist">>) )

ConfigChange(changedPath) ==
  /\ phase = "running"
  /\ Delivered < MaxEvents
  /\ configEvents' = Append(configEvents, changedPath)
  /\ runs' = IF ChangeHandlerRunsSetup(changedPath)
             THEN Append(runs, NewRun("rerun", changedPath))
             ELSE runs
  /\ UNCHANGED cgVars
  /\ UNCHANGED <<phase, exitCode, exitBy, exitTrigger, subProc, kills, noWatch, legacy, artifacts,
                 contentWatching, contentReady, contentEvents, contentCalls,
                 queryWatchers, queryEvents, queryExecs>>

----------------------------------------------------------------------------
(* watchContentFiles *)

\* the handlers with 'unlink' copied from 'change' and left indexing
ContentHandlerUnlinkIndexes(kind, file, ready) ==
  IF kind = "add" /\ ~ready THEN <<>>
  ELSE <<[op |-> "indexContentByPaths",
          paths |-> <<PrintContentRelativePath(file)>>]>>

\* The calls the handler of an event issues, given `ready` at that moment
ContentHandler(kind, file, ready) ==
  CASE kind = "add" ->
         IF ~ready THEN <<>>
         ELSE <<[op |-> "indexContentByPaths",
                 paths |-> <<PrintContentRelativePath(file)>>]>>
    [] kind = "change" ->
         <<[op |-> "indexContentByPaths",
            paths |-> <<PrintContentRelativePath(file)>>]>>
    [] kind = "unlink" ->
         <<[op |-> "deleteContentByPaths",
            paths |-> <<PrintContentRelativePath(file)>>]>>

ContentWatcherReady ==
  /\ phase = "running"
  /\ contentWatching
  /\ ~contentReady
  /\ contentReady' = TRUE
  /\ UNCHANGED cgVars
  /\ UNCHANGED <<phase, exitCode, exitBy, exitTrigger, subProc, kills, noWatch, legacy, runs, artifacts,
                 configEvents, contentWatching, contentEvents, contentCalls,
                 queryWatchers, queryEvents, queryExecs>>

\* the content handlers running the whole reconcile after their indexer call
ContentEventReconciles(kind, file) ==
  /\ phase = "running"
  /\ contentWatching
  /\ Delivered < MaxEvents
  /\ contentEvents' = Append(contentEvents,
                             [kind |-> kind, file |-> file, ready |-> contentReady])
  /\ LET ev == Len(contentEvents) + 1
         issued == ContentHandler(kind, file, contentReady)
     IN contentCalls' = contentCalls \o
          [i \in 1..Len(issued) |->
             [op |-> issued[i].op, paths |-> issued[i].paths, ev |-> ev]]
  /\ runs' = Append(runs, NewRun("rerun", file))
  /\ UNCHANGED cgVars
  /\ UNCHANGED <<phase, exitCode, exitBy, exitTrigger, subProc, kills, noWatch, legacy, artifacts,
                 configEvents, contentWatching, contentReady,
                 queryWatchers, queryEvents, queryExecs>>

ContentEvent(kind, file) ==
  /\ phase = "running"
  /\ contentWatching
  /\ Delivered < MaxEvents
  /\ contentEvents' = Append(contentEvents,
                             [kind |-> kind, file |-> file, ready |-> contentReady])
  /\ LET ev == Len(contentEvents) + 1
         issued == ContentHandler(kind, file, contentReady)
     IN contentCalls' = contentCalls \o
          [i \in 1..Len(issued) |->
             [op |-> issued[i].op, paths |-> issued[i].paths, ev |-> ev]]
  /\ UNCHANGED cgVars
  /\ UNCHANGED <<phase, exitCode, exitBy, exitTrigger, subProc, kills, noWatch, legacy, runs, artifacts,
                 configEvents, contentWatching, contentReady,
                 queryWatchers, queryEvents, queryExecs>>

----------------------------------------------------------------------------
(* watchQueries *)

\* Whether the handler of an event invokes the callback, given `ready`
QueryHandlerCalls(kind, file, ready) == TRUE

QueryWatcherReady(w) ==
  /\ phase # "exited"
  /\ w \in 1..Len(queryWatchers)
  /\ ~queryWatchers[w].ready
  /\ queryWatchers' = [queryWatchers EXCEPT ![w].ready = TRUE]
  /\ UNCHANGED cgVars
  /\ UNCHANGED <<phase, exitCode, exitBy, exitTrigger, subProc, kills, noWatch, legacy, runs, artifacts,
                 configEvents, contentWatching, contentReady, contentEvents,
                 contentCalls, queryEvents, queryExecs>>

\* a callback that runs the whole reconcile
QueryCallbackSetup == "setup"

\* The callback setup() gives to watchQueries: async () => await codegen.execute()
QueryCallback == "codegen.execute"

\* An event of query watcher w: the handler awaits callback(), which is
\* codegen.execute() of the Codegen built by the run that registered w
QueryEvent(w, kind, file) ==
  /\ phase # "exited"
  /\ w \in 1..Len(queryWatchers)
  /\ Delivered < MaxEvents
  /\ queryEvents' = Append(queryEvents,
       [w |-> w, kind |-> kind, file |-> file, ready |-> queryWatchers[w].ready])
  /\ queryExecs' =
       IF QueryHandlerCalls(kind, file, queryWatchers[w].ready)
          /\ QueryCallback = "codegen.execute"
       THEN Append(queryExecs, [ev |-> Len(queryEvents) + 1,
                                owner |-> queryWatchers[w].owner,
                                status |-> "running"])
       ELSE queryExecs
  /\ runs' =
       IF QueryHandlerCalls(kind, file, queryWatchers[w].ready)
          /\ QueryCallback = "setup"
       THEN Append(runs, NewRun("rerun", file))
       ELSE runs
  /\ UNCHANGED cgVars
  /\ UNCHANGED <<phase, exitCode, exitBy, exitTrigger, subProc, kills, noWatch, legacy, artifacts,
                 configEvents, contentWatching, contentReady, contentEvents,
                 contentCalls, queryWatchers>>

\* The callback's codegen.execute() resolves or rejects
QueryExecEnds(x, ok) ==
  /\ phase # "exited"
  /\ x \in 1..Len(queryExecs)
  /\ queryExecs[x].status = "running"
  /\ queryExecs' = [queryExecs EXCEPT ![x].status = IF ok THEN "done" ELSE "failed"]
  /\ artifacts' = IF ok THEN queryExecs[x].owner ELSE artifacts
  /\ UNCHANGED cgVars
  /\ UNCHANGED <<phase, exitCode, exitBy, exitTrigger, subProc, kills, noWatch, legacy, runs,
                 configEvents, contentWatching, contentReady, contentEvents,
                 contentCalls, queryWatchers, queryEvents>>

\* The events exitHandler is registered on besides 'exit'
Signals == {"SIGINT", "SIGUSR1", "SIGUSR2"}

\* A termination signal arrives while the session runs
Signal(sig) ==
  /\ ExitHandler(sig)
  /\ UNCHANGED cgVars
  /\ UNCHANGED <<noWatch, legacy, runs, artifacts,
                 configEvents, contentWatching, contentReady, contentEvents,
                 contentCalls, queryWatchers, queryEvents, queryExecs>>

\* The promise of a path-scoped indexer call rejects. The 'change' and
\* 'unlink' handlers neither await it nor attach a catch, so the rejection
\* is unhandled; a runtime that raises unhandled rejections delivers it as
\* an uncaughtException, which runs exitHandler. (A runtime that only warns
\* about them leaves the state as it is.)
ContentCallRejects(c) ==
  /\ c \in 1..Len(contentCalls)
  /\ ExitHandler("uncaughtException")
  /\ UNCHANGED cgVars
  /\ UNCHANGED <<noWatch, legacy, runs, artifacts,
                 configEvents, contentWatching, contentReady, contentEvents,
                 contentCalls, queryWatchers, queryEvents, queryExecs>>

\* codegen.execute() of a watchQueries callback throws. The handler awaits
\* callback() outside any try, so its own promise rejects unhandled; a
\* runtime that raises unhandled rejections delivers it as an
\* uncaughtException, which runs exitHandler. (QueryExecEnds(x, FALSE) is
\* the outcome on a runtime that only warns.)
QueryExecRejects(x) ==
  /\ x \in 1..Len(queryExecs)
  /\ queryExecs[x].status = "running"
  /\ queryExecs' = [queryExecs EXCEPT ![x].status = "failed"]
  /\ ExitHandler("uncaughtException")
  /\ UNCHANGED cgVars
  /\ UNCHANGED <<noWatch, legacy, runs, artifacts,
                 configEvents, contentWatching, contentReady, contentEvents,
                 contentCalls, queryWatchers, queryEvents>>

----------------------------------------------------------------------------
(* Codegen *)

\* A JavaScript string is the sequence of its pieces; <<>> is the empty
\* string and stands for undefined as well (both are falsy).
Falsy(str) == str = <<>>

TINA_HOST == <<"content.tinajs.io">>
TinaGraphQLVersion == <<"1.4">>

\* Array.prototype.join
RECURSIVE Join(_, _)
Join(list, sep) ==
  IF Len(list) = 0 THEN <<>>
  ELSE IF Len(list) = 1 THEN <<list[1]>>
  ELSE <<list[1], sep>> \o Join(Tail(list), sep)

NoResult == [called |-> FALSE, ok |-> FALSE, value |-> <<>>]
Returned(url) == [called |-> TRUE, ok |-> TRUE, value |-> url]
Threw(message) == [called |-> TRUE, ok |-> FALSE, value |-> message]

\* the list `missing` built without the check of the token
MissingFieldsNoToken(cfg) ==
  (IF Falsy(cfg.branch) THEN <<"branch">> ELSE <<>>)
  \o (IF Falsy(cfg.clientId) THEN <<"clientId">> ELSE <<>>)

\* the list `missing` of getApiURL
MissingFields(cfg) ==
  (IF Falsy(cfg.branch) THEN <<"branch">> ELSE <<>>)
  \o (IF Falsy(cfg.clientId) THEN <<"clientId">> ELSE <<>>)
  \o (IF Falsy(cfg.token) THEN <<"token">> ELSE <<>>)

NotConfiguredMessage(missing) ==
  <<"Client not configured properly. Missing ">>
  \o Join(missing, ", ")
  \o <<". Please visit https://tina.io/docs/tina-cloud/connecting-site/ for more information">>

\* getApiURL with the override applied only when no port is given
GetApiURLPortFirst(cfg, prt) ==
  IF /\ (Falsy(cfg.branch) \/ Falsy(cfg.clientId) \/ Falsy(cfg.token))
     /\ prt = 0
     /\ Falsy(cfg.contentApiUrlOverride)
  THEN Threw(NotConfiguredMessage(MissingFields(cfg)))
  ELSE IF prt # 0
       THEN Returned(<<"http://localhost:", ToString(prt), "/graphql">>)
       ELSE IF ~Falsy(cfg.contentApiUrlOverride)
            THEN Returned(cfg.contentApiUrlOverride)
            ELSE Returned((IF ~Falsy(cfg.tinaioConfig) THEN cfg.tinaioConfig
                           ELSE <<"https://">> \o TINA_HOST)
                          \o <<"/">> \o TinaGraphQLVersion \o <<"/content/">>
                          \o cfg.clientId \o <<"/github/">> \o cfg.branch)

\* Codegen.getApiURL
GetApiURL(cfg, prt) ==
  LET baseUrl == IF ~Falsy(cfg.tinaioConfig) THEN cfg.tinaioConfig
                 ELSE <<"https://">> \o TINA_HOST
  IN IF /\ (Falsy(cfg.branch) \/ Falsy(cfg.clientId) \/ Falsy(cfg.token))
        /\ prt = 0
        /\ Falsy(cfg.contentApiUrlOverride)
     THEN Threw(NotConfiguredMessage(MissingFields(cfg)))
     ELSE LET apiURL ==
                IF prt # 0
                THEN <<"http://localhost:", ToString(prt), "/graphql">>
                ELSE baseUrl \o <<"/">> \o TinaGraphQLVersion \o <<"/content/">>
                     \o cfg.clientId \o <<"/github/">> \o cfg.branch
          IN IF ~Falsy(cfg.contentApiUrlOverride)
             THEN Returned(cfg.contentApiUrlOverride)
             ELSE Returned(apiURL)

\* The generated files, by the configManager property that holds their path
Files ==
  { "generatedQueriesFilePath", "generatedFragmentsFilePath",
    "generatedGraphQLGQLPath", "generatedTypesTSFilePath",
    "generatedClientTSFilePath", "generatedTypesDFilePath",
    "generatedTypesJSFilePath", "generatedClientJSFilePath" }

TypedFiles == { "generatedTypesTSFilePath", "generatedClientTSFilePath" }
RuntimeFiles == { "generatedTypesDFilePath", "generatedTypesJSFilePath",
                  "generatedClientJSFilePath" }

NoFile == <<>>

Output(file, what) == [op |-> "outputFile", file |-> file, what |-> what]
Unlink(file) == [op |-> "unlinkIfExists", file |-> file, what |-> ""]
Compute(what) == [op |-> what, file |-> "", what |-> ""]

\* Codegen.removeGeneratedFilesIfExists
RemoveGeneratedFilesIfExists ==
  << Unlink("generatedClientJSFilePath"), Unlink("generatedTypesDFilePath"),
     Unlink("generatedTypesJSFilePath"), Unlink("generatedTypesTSFilePath"),
     Unlink("generatedClientTSFilePath"), Unlink("generatedQueriesFilePath"),
     Unlink("generatedFragmentsFilePath") >>

\* the typed branch without the removal of the runtime mode's files
TypedBranchKeepsRuntimeFiles ==
  << Output("generatedTypesTSFilePath", "codeString"),
     Output("generatedClientTSFilePath", "clientString") >>

\* the typed branch of execute (isUsingTs() is true)
TypedBranch ==
  << Output("generatedTypesTSFilePath", "codeString"),
     Output("generatedClientTSFilePath", "clientString"),
     Unlink("generatedClientJSFilePath"), Unlink("generatedTypesDFilePath"),
     Unlink("generatedTypesJSFilePath") >>

\* the runtime branch of execute (isUsingTs() is false)
RuntimeBranch ==
  << Output("generatedTypesDFilePath", "codeString"),
     Compute("transform"),
     Output("generatedTypesJSFilePath", "jsCode"),
     Output("generatedClientJSFilePath", "clientString"),
     Unlink("generatedTypesTSFilePath"), Unlink("generatedClientTSFilePath") >>

\* The awaited operations of Codegen.execute after its call of getApiURL
ExecutePlan(sdkOff, ts) ==
  IF sdkOff THEN RemoveGeneratedFilesIfExists
  ELSE << Output("generatedQueriesFilePath", "queryDoc"),
          Output("generatedFragmentsFilePath", "fragDoc"),
          Compute("maybeWarnFragmentSize"),
          Compute("genClient"),
          Compute("genTypes"),
          Output("generatedGraphQLGQLPath", "schemaString") >>
       \o (IF ts THEN TypedBranch ELSE RuntimeBranch)

Plan == ExecutePlan(noSDK, isUsingTs)

\* what a file holds after fs.outputFile(file, what) by a Codegen of generation d
Content(what, d) == <<what, d>>

\* unlinkIfExists
UnlinkIfExists(files, file) == [files EXCEPT ![file] = NoFile]

\* the warning printed from 100 KiB on
WarnsFragmentSizeFromLimit(size) == size >= 100 * 1024

\* maybeWarnFragmentSize: whether the warning is printed for a file of `size` bytes
WarnsFragmentSize(size) == size > 100 * 1024

\* the effect of one operation of the plan on the disk
Apply(files, o, d) ==
  CASE o.op = "outputFile" -> [files EXCEPT ![o.file] = Content(o.what, d)]
    [] o.op = "unlinkIfExists" -> UnlinkIfExists(files, o.file)
    [] OTHER -> files

\* operations of execute that can reject: the file writes, generateTypes
\* (inside genTypes) and esbuild's transform
CanThrow(o) == o.op \in {"outputFile", "genTypes", "transform"}

\* execute() is called: getApiURL runs before the first await
ExecuteStart ==
  /\ cpc = "idle"
  /\ apiResult' = GetApiURL(config, port)
  /\ cpc' = IF apiResult'.ok THEN "running" ELSE "threw"
  /\ cstep' = 0
  /\ warned' = FALSE
  /\ UNCHANGED devVars
  /\ UNCHANGED <<config, port, noSDK, isUsingTs, docs, fragSize, disk, before, nExec>>

\* the next awaited operation of execute() completes
ExecuteStep ==
  /\ cpc = "running"
  /\ LET o == Plan[cstep + 1]
     IN /\ disk' = Apply(disk, o, docs)
        /\ warned' = IF o.op = "maybeWarnFragmentSize"
                     THEN WarnsFragmentSize(fragSize) ELSE warned
  /\ cstep' = cstep + 1
  /\ cpc' = IF cstep' = Len(Plan) THEN "returned" ELSE "running"
  /\ UNCHANGED devVars
  /\ UNCHANGED <<config, port, noSDK, isUsingTs, docs, fragSize, before, apiResult, nExec>>

\* the next awaited operation of execute() rejects: execute() rejects
ExecuteThrows ==
  /\ cpc = "running"
  /\ CanThrow(Plan[cstep + 1])
  /\ cpc' = "threw"
  /\ UNCHANGED devVars
  /\ UNCHANGED <<config, port, noSDK, isUsingTs, docs, fragSize, disk, before,
                 cstep, apiResult, warned, nExec>>

\* every configuration getApiURL distinguishes
ApiConfigs ==
  [ branch : { <<>>, <<"main">> },
    clientId : { <<>>, <<"abc123">> },
    token : { <<>>, <<"tok">> },
    contentApiUrlOverride : { <<>>, <<"https://override.example/graphql">> },
    tinaioConfig : { <<>>, <<"https://tina.internal">> } ]

Ports == { 0, 4001 }

\* the configurations Codegen.execute is run with: not configured, local
\* dev server, Tina Cloud
ExecConfigs ==
  { c \in ApiConfigs :
      /\ Falsy(c.contentApiUrlOverride) /\ Falsy(c.tinaioConfig)
      /\ \/ Falsy(c.branch) /\ Falsy(c.clientId) /\ Falsy(c.token)
         \/ ~Falsy(c.branch) /\ ~Falsy(c.clientId) /\ ~Falsy(c.token) }

FragSizes == { 100 * 1024, 100 * 1024 + 1 }

Generations == { "g1", "g2" }

\* a reconcile builds the next Codegen: new Codegen({...}) after processConfig
NewCodegen(c, p, sdkOff, ts, d, size) ==
  /\ cpc \in {"returned", "threw"}
  /\ nExec < MaxExecutes
  /\ nExec' = nExec + 1
  /\ config' = c
  /\ port' = p
  /\ noSDK' = sdkOff
  /\ isUsingTs' = ts
  /\ docs' = d
  /\ fragSize' = size
  /\ cpc' = "idle"
  /\ cstep' = 0
  /\ before' = disk
  /\ UNCHANGED devVars
  /\ UNCHANGED <<disk, apiResult, warned>>

\* getApiURL called on its own
CallGetApiURL ==
  /\ ~apiResult.called
  /\ apiResult' = GetApiURL(config, port)
  /\ UNCHANGED devVars
  /\ UNCHANGED <<config, port, noSDK, isUsingTs, docs, fragSize, disk, before,
                 cpc, cstep, warned, nExec>>

----------------------------------------------------------------------------
(* The dev session *)

DevUnused ==
  /\ phase = "starting"
  /\ exitCode = -1
  /\ exitBy = 0
  /\ exitTrigger = "none"
  /\ subProc = "none"
  /\ kills = 0
  /\ noWatch = FALSE
  /\ legacy = FALSE
  /\ runs = <<>>
  /\ artifacts = 0
  /\ configEvents = <<>>
  /\ contentWatching = FALSE
  /\ contentReady = FALSE
  /\ contentEvents = <<>>
  /\ contentCalls = <<>>
  /\ queryWatchers = <<>>
  /\ queryEvents = <<>>
  /\ queryExecs = <<>>

CodegenNotRun ==
  /\ docs = "g1"
  /\ fragSize = 0
  /\ noSDK = FALSE
  /\ isUsingTs = TRUE
  /\ disk = [f \in Files |-> NoFile]
  /\ before = disk
  /\ cpc = "idle"
  /\ cstep = 0
  /\ apiResult = NoResult
  /\ warned = FALSE
  /\ nExec = 0

CodegenUnused ==
  /\ config = [branch |-> <<>>, clientId |-> <<>>, token |-> <<>>,
               contentApiUrlOverride |-> <<>>, tinaioConfig |-> <<>>]
  /\ port = 4001
  /\ CodegenNotRun

Init ==
  /\ phase = "starting"
  /\ exitCode = -1
  /\ exitBy = 0
  /\ exitTrigger = "none"
  /\ subProc = "none"
  /\ kills = 0
  /\ noWatch \in BOOLEAN
  /\ legacy \in BOOLEAN
  /\ runs = <<NewRun("initial", <<>>)>>
  /\ artifacts = 0
  /\ configEvents = <<>>
  /\ contentWatching = FALSE
  /\ contentReady = FALSE
  /\ contentEvents = <<>>
  /\ contentCalls = <<>>
  /\ queryWatchers = <<>>
  /\ queryEvents = <<>>
  /\ queryExecs = <<>>
  /\ CodegenUnused

Next ==
  \/ \E r \in 1..(MaxEvents + 1) : SetupStepOk(r)
  \/ \E r \in 1..(MaxEvents + 1) : SetupConfigFails(r)
  \/ \E r \in 1..(MaxEvents + 1) : SetupThrows(r)
  \/ StartServer(FALSE)
  \/ \E c \in 1..MaxEvents : ContentCallRejects(c)
  \/ \E x \in 1..MaxEvents : QueryExecRejects(x)
  \/ \E p \in ConfigPaths : ConfigChange(p)
  \/ ContentWatcherReady
  \/ \E k \in Kinds, f \in ContentPaths : ContentEvent(k, f)
  \/ \E w \in 1..(MaxEvents + 1) : QueryWatcherReady(w)
  \/ \E w \in 1..(MaxEvents + 1), k \in Kinds, f \in QueryPaths : QueryEvent(w, k, f)
  \/ \E x \in 1..MaxEvents, ok \in BOOLEAN : QueryExecEnds(x, ok)

\* A session started without a sub-command that no termination signal reaches
Spec == Init /\ [][Next]_vars

\* A session with or without a sub-command, under termination signals
NextShutdown ==
  \/ Next
  \/ StartServer(TRUE)
  \/ \E sig \in Signals : Signal(sig)

SpecShutdown == Init /\ [][NextShutdown]_vars

----------------------------------------------------------------------------
(* Properties of the dev session *)

Runs == 1..Len(runs)

\* run r has completed step s
Completed(r, s) == Member(runs[r].trace, s)

\* run r has started step s: completed it, or was suspended on it
Started(r, s) ==
  \/ Completed(r, s)
  \/ runs[r].status # "done" /\ Pending(r) = s

\* the steps of `order` that apply to this session
Applies(s) == s # "tina-lock.json" \/ ~legacy

\* in every run a step of `order` starts only when the steps before it in
\* `order` have completed
StepsRunInOrder(order) ==
  \A r \in Runs : \A i, j \in 1..Len(order) :
     (i < j /\ Applies(order[i]) /\ Started(r, order[j])) => Completed(r, order[i])

\* C1: single-flight reconcile: at no point are two runs of setup() in
\* flight at the same time.
C1_SingleFlight ==
  Cardinality({ r \in Runs : Active(r) }) <= 1

C3_SuppressedBackfill ==
  \A c \in 1..Len(contentCalls) : contentEvents[contentCalls[c].ev].ready

\* C4: no event a query watcher delivers before its ready signal invokes
\* the codegen callback.
C4_QueryReadinessGate ==
  \A x \in 1..Len(queryExecs) : queryEvents[queryExecs[x].ev].ready

\* C5: no event whose path contains a generated-output marker, in any
\* watcher, leads to an indexer call, a full reconcile or a codegen
\* regeneration.
C5_SelfLoopSuppression ==
  /\ \A c \in 1..Len(contentCalls) :
        ~HasMarker(contentEvents[contentCalls[c].ev].file)
  /\ \A x \in 1..Len(queryExecs) :
        ~HasMarker(queryEvents[queryExecs[x].ev].file)
  /\ \A r \in Runs : ~HasMarker(runs[r].trigger)

\* C7: a failure of the config load in a reconcile triggered by a config
\* change leaves the process running; only a failure of the initial
\* reconcile ends the process with exit code 1.
C7_ConfigFailureKeepsRunning ==
  /\ \A r \in Runs :
        (runs[r].kind = "rerun" /\ runs[r].status = "configFailed")
           => phase = "running"
  /\ exitCode = 1 => runs[exitBy].kind = "initial"

\* the call an event of kind k on file f is routed to
RoutedOp(k) == IF k = "unlink" THEN "deleteContentByPaths" ELSE "indexContentByPaths"

\* C10: after ready, every add or change event causes exactly one
\* indexContentByPaths call and every unlink event exactly one
\* deleteContentByPaths call, with the event's root-relative path as the
\* only element of the path list, and the calls are issued in the order of
\* the events.
C10_ContentRouting ==
  /\ \A e \in 1..Len(contentEvents) :
        contentEvents[e].ready =>
          /\ Cardinality({ c \in 1..Len(contentCalls) : contentCalls[c].ev = e }) = 1
          /\ \A c \in 1..Len(contentCalls) :
                contentCalls[c].ev = e =>
                  /\ contentCalls[c].op = RoutedOp(contentEvents[e].kind)
                  /\ Len(contentCalls[c].paths) = 1
                  /\ ContentRoot \o contentCalls[c].paths[1] = contentEvents[e].file
  /\ \A c, d \in 1..Len(contentCalls) :
        c < d => contentCalls[c].ev < contentCalls[d].ev

\* a file is added after ready and then removed: one index call, then one
\* delete call, for the same path
C10_Witness ==
  /\ Len(contentEvents) = 2
  /\ contentEvents[1].ready /\ contentEvents[1].kind = "add"
  /\ contentEvents[2].kind = "unlink"
  /\ contentEvents[1].file = contentEvents[2].file
  /\ Len(contentCalls) = 2
  /\ contentCalls[1].op = "indexContentByPaths"
  /\ contentCalls[2].op = "deleteContentByPaths"
  /\ contentCalls[1].paths = <<<<"posts", "a.md">>>>
  /\ contentCalls[2].paths = contentCalls[1].paths

\* the 'change' events of server.watcher that passed its filter
ReconcileTriggers == { i \in 1..Len(configEvents) : ~HasMarker(configEvents[i]) }

\* C11: a query-file event triggers a codegen-only regeneration: it invokes
\* the callback (codegen.execute) once, and starts no reconcile, so no
\* config load, no schema build and no full content index rebuild; the
\* only runs of setup() are the initial one and one per config change.
C11_QueryEventCodegenOnly ==
  /\ \A e \in 1..Len(queryEvents) :
        Cardinality({ x \in 1..Len(queryExecs) : queryExecs[x].ev = e }) = 1
  /\ Len(runs) = 1 + Cardinality(ReconcileTriggers)
  /\ \A r \in Runs : runs[r].trigger \notin QueryPaths

\* a query event came after the initial reconcile, its regeneration has
\* completed and written the artifacts, and the initial reconcile is still
\* the only run of setup()
C11_Witness ==
  /\ Len(runs) = 1 /\ runs[1].status = "done"
  /\ Len(queryEvents) = 1 /\ queryEvents[1].kind = "change"
  /\ Len(queryExecs) = 1 /\ queryExecs[1].status = "done"
  /\ artifacts = queryExecs[1].owner

\* C12: a step that delivers a content-file event issues at most one call,
\* a path-scoped one, and leaves the runs of setup() (config load, schema
\* build, full reconcile), the codegen regenerations, the query watchers and
\* the generated artifacts as they were.
C12_ContentEventPathScopedOnly ==
  [][ Len(contentEvents') > Len(contentEvents) =>
        /\ runs' = runs
        /\ queryExecs' = queryExecs
        /\ queryWatchers' = queryWatchers
        /\ artifacts' = artifacts
        /\ Len(contentCalls') <= Len(contentCalls) + 1
        /\ \A c \in (Len(contentCalls) + 1)..Len(contentCalls') :
              contentCalls'[c].op \in {"indexContentByPaths", "deleteContentByPaths"}
    ]_vars

\* a content file changed and was removed while the session ran: two
\* path-scoped calls, and the initial reconcile is the only run of setup()
C12_Witness ==
  /\ Len(contentEvents) = 2
  /\ contentEvents[1].kind = "change" /\ contentEvents[2].kind = "unlink"
  /\ Len(contentCalls) = 2
  /\ Len(runs) = 1
  /\ queryExecs = <<>>
  /\ artifacts = 1

\* a full content index rebuild is running: some setup() awaits indexContent
RebuildRunning == \E r \in Runs : Active(r) /\ Pending(r) = "indexContent"

\* C15: no path-scoped update of the content index is started while a full
\* rebuild pass (database.indexContent) is running.
C15_ExclusiveRebuild ==
  [][ Len(contentCalls') > Len(contentCalls) => ~RebuildRunning ]_vars

\* the runs of Codegen.execute in progress: those of the watchQueries
\* callbacks and those awaited by setup()
ExecutesInProgress ==
  Cardinality({ x \in 1..Len(queryExecs) : queryExecs[x].status = "running" })
  + Cardinality({ r \in Runs : Active(r) /\ Pending(r) = "codegen.execute" })

\* C16: at most one run of Codegen.execute is in progress at a time.
C16_OneExecuteAtATime == ExecutesInProgress <= 1

\* the last reconcile that built its Codegen and registered its watcher
LatestReconcile ==
  CHOOSE r \in Runs \cup {0} :
    /\ r # 0 => Completed(r, "codegen.execute")
    /\ \A q \in Runs : Completed(q, "codegen.execute") => q <= r

\* C20: with file watching enabled, after any number of full reconciles
\* exactly one query watcher is registered, and every regeneration a query
\* event triggers uses the Codegen of the most recent reconcile.
C20_OneQueryWatcher ==
  /\ (~noWatch /\ LatestReconcile # 0) => Len(queryWatchers) = 1
  /\ \A x \in 1..Len(queryExecs) :
        queryExecs[x].status = "running" => queryExecs[x].owner = LatestReconcile

\* C13: shutdown is idempotent: whatever termination triggers arrive, and
\* counting the 'exit' event raised by the routine's own process.exit(),
\* the sub-process is killed at most once.
C13_IdempotentShutdown == kills <= 1

\* C18: an error raised while a content or query event is handled stays
\* local to the handler: it never arrives at the uncaughtException listener
\* and so never ends the process.
C18_HandlerErrorsStayLocal == exitTrigger # "uncaughtException"

----------------------------------------------------------------------------
(* Codegen.execute run on its own, one run after the other, from any set of
   generated files left on disk by earlier sessions *)

InitCodegen ==
  /\ DevUnused
  /\ config \in ExecConfigs
  /\ port \in Ports
  /\ noSDK \in BOOLEAN
  /\ isUsingTs \in BOOLEAN
  /\ docs \in Generations
  /\ fragSize \in FragSizes
  /\ \E present \in SUBSET (TypedFiles \cup RuntimeFiles) :
        disk = [f \in Files |-> IF f \in present THEN Content("earlier", "g0") ELSE NoFile]
  /\ before = disk
  /\ cpc = "idle"
  /\ cstep = 0
  /\ apiResult = NoResult
  /\ warned = FALSE
  /\ nExec = 1

NextCodegen ==
  \/ ExecuteStart
  \/ ExecuteStep
  \/ ExecuteThrows
  \/ \E c \in ExecConfigs, p \in Ports, sdkOff \in BOOLEAN, ts \in BOOLEAN,
        d \in Generations, size \in FragSizes : NewCodegen(c, p, sdkOff, ts, d, size)

SpecCodegen == InitCodegen /\ [][NextCodegen]_vars

\* The first Codegen starts on a disk that holds files of one mode at most
InitCodegenOneMode ==
  /\ InitCodegen
  /\ \/ \A f \in TypedFiles : disk[f] = NoFile
     \/ \A f \in RuntimeFiles : disk[f] = NoFile

SpecCodegenOneMode == InitCodegenOneMode /\ [][NextCodegen]_vars

----------------------------------------------------------------------------
(* getApiURL applied to every configuration *)

InitApiURL ==
  /\ DevUnused
  /\ CodegenNotRun
  /\ config \in ApiConfigs
  /\ port \in Ports

NextApiURL == CallGetApiURL

SpecApiURL == InitApiURL /\ [][NextApiURL]_vars

----------------------------------------------------------------------------
(* Properties of Codegen *)

Exists(file) == disk[file] # NoFile

Credentials == <<"branch", "clientId", "token">>

\* the fields of {branch, clientId, token} the configuration lacks
MissingSet == { f \in {"branch", "clientId", "token"} : Falsy(config[f]) }

InMissingSet(f) == f \in MissingSet

\* C6 as stated: when execute has returned in the typed mode, types.ts and
\* client.ts exist and client.js, types.d, types.js do not; when it has
\* returned in the runtime mode, types.d, types.js, client.js exist and
\* types.ts, client.ts do not.
C6_ModeExclusiveAfterExecute ==
  cpc = "returned" =>
    IF isUsingTs
    THEN (\A f \in TypedFiles : Exists(f)) /\ (\A f \in RuntimeFiles : ~Exists(f))
    ELSE (\A f \in RuntimeFiles : Exists(f)) /\ (\A f \in TypedFiles : ~Exists(f))

\* C6 amended: the same, for a Codegen with noSDK false; with noSDK true,
\* when execute has returned none of the five files exists, in either mode.
C6_ModeExclusiveUnlessNoSDK ==
  cpc = "returned" =>
    IF noSDK
    THEN \A f \in TypedFiles \cup RuntimeFiles : ~Exists(f)
    ELSE IF isUsingTs
         THEN (\A f \in TypedFiles : Exists(f)) /\ (\A f \in RuntimeFiles : ~Exists(f))
         ELSE (\A f \in RuntimeFiles : Exists(f)) /\ (\A f \in TypedFiles : ~Exists(f))

\* the second of two consecutive runs returned in the typed mode, on a disk
\* that held the runtime mode's files written by the first
C6_Witness ==
  /\ nExec = 2
  /\ cpc = "returned"
  /\ ~noSDK /\ isUsingTs
  /\ \A f \in RuntimeFiles : before[f] # NoFile /\ before[f][2] \in Generations
  /\ \A f \in TypedFiles : before[f] = NoFile
  /\ \A f \in TypedFiles : Exists(f)

\* C8: with no port and no override URL, when a non-empty set of branch,
\* clientId, token is missing getApiURL throws the error that lists exactly
\* the missing fields in the order branch, clientId, token; when none is
\* missing it does not throw.
C8_MissingFieldsListed ==
  apiResult.called =>
    /\ (port = 0 /\ Falsy(config.contentApiUrlOverride) /\ MissingSet # {}) =>
          /\ ~apiResult.ok
          /\ apiResult.value =
               <<"Client not configured properly. Missing ">>
               \o Join(SelectSeq(Credentials, InMissingSet), ", ")
               \o <<". Please visit https://tina.io/docs/tina-cloud/connecting-site/ for more information">>
    /\ MissingSet = {} => apiResult.ok

\* branch and token are missing, clientId is not: the error lists the two
C8_Witness ==
  /\ apiResult.called
  /\ port = 0 /\ Falsy(config.contentApiUrlOverride)
  /\ MissingSet = {"branch", "token"}
  /\ ~apiResult.ok
  /\ Len(apiResult.value) = 5
  /\ apiResult.value[2] = "branch" /\ apiResult.value[4] = "token"

\* C9: an override URL is returned verbatim whatever the port and the
\* credentials; without an override, a port gives the local loopback URL
\* whatever the credentials; without either, the hosted URL built from
\* clientId and branch is returned (with a credential missing getApiURL
\* throws there, which is C8).
C9_UrlPrecedence ==
  apiResult.called =>
    /\ ~Falsy(config.contentApiUrlOverride) =>
          apiResult.ok /\ apiResult.value = config.contentApiUrlOverride
    /\ (Falsy(config.contentApiUrlOverride) /\ port # 0) =>
          /\ apiResult.ok
          /\ apiResult.value = <<"http://localhost:", ToString(port), "/graphql">>
    /\ (Falsy(config.contentApiUrlOverride) /\ port = 0 /\ MissingSet = {}) =>
          /\ apiResult.ok
          /\ Len(apiResult.value) > 6
          /\ SubSeq(apiResult.value, Len(apiResult.value) - 5, Len(apiResult.value)) =
               <<"/", TinaGraphQLVersion[1], "/content/", config.clientId[1],
                 "/github/", config.branch[1]>>
          /\ SubSeq(apiResult.value, 1, Len(apiResult.value) - 6) \in
               { <<"https://", "content.tinajs.io">>, config.tinaioConfig }

\* an override wins over a port, with credentials missing
C9_Witness ==
  /\ apiResult.called /\ apiResult.ok
  /\ ~Falsy(config.contentApiUrlOverride)
  /\ port # 0
  /\ MissingSet # {}
  /\ apiResult.value = config.contentApiUrlOverride

\* execute() has been called on the current Codegen
ExecuteCalled == cpc \in {"running", "returned", "threw"}

\* C14: the fragment-size check is advisory only. Once execute is past it,
\* the warning has been printed exactly when the fragment document is larger
\* than 102400 bytes; the check never makes execute throw; the fragment
\* document stays as written; and when execute returns, the schema document
\* and the client and type files of the active mode hold what this run
\* generated, warning or not.
C14_FragmentWarningAdvisory ==
  (ExecuteCalled /\ ~noSDK) =>
    /\ cstep >= 3 => (warned <=> fragSize > 102400)
    /\ cstep < 3 => ~warned
    /\ (cpc = "threw" /\ apiResult.ok) => Plan[cstep + 1].op # "maybeWarnFragmentSize"
    /\ cstep >= 2 => disk["generatedFragmentsFilePath"] = Content("fragDoc", docs)
    /\ cpc = "returned" =>
         /\ disk["generatedGraphQLGQLPath"] = Content("schemaString", docs)
         /\ \A f \in (IF isUsingTs THEN TypedFiles ELSE RuntimeFiles) :
               Exists(f) /\ disk[f][2] = docs

\* execute has returned after printing the warning for a fragment document
\* of 102401 bytes, and the client of the active mode is on disk
C14_Witness ==
  /\ cpc = "returned" /\ ~noSDK
  /\ fragSize = 102401 /\ warned
  /\ disk["generatedFragmentsFilePath"] = Content("fragDoc", docs)
  /\ disk["generatedClientTSFilePath"] = Content("clientString", docs)

\* C17: a run of execute that fails leaves every generated file with the
\* content it had before the run.
C17_AllOrNothing == cpc = "threw" => disk = before

\* C19: in every state, the intermediate states of execute and the states
\* after a failure part-way included, the disk never holds files of the
\* typed mode and files of the runtime mode together.
C19_NeverBothModes ==
  ~ ((\E f \in TypedFiles : Exists(f)) /\ (\E f \in RuntimeFiles : Exists(f)))

====
